---------------------------- MODULE Spec2Model ----------------------------
(***************************************************************************)
(* Piezoelectric window simulator: the energy store (energy_storage.py),   *)
(* the vibration generator (generator.py), the mechanical model            *)
(* (physics_model.py) and the driver loop (main.py, with the visualizer's  *)
(* click handling and frame clock).                                        *)
(*                                                                         *)
(* Python floats are modelled as exact rationals <<n, d>> in lowest terms  *)
(* with d > 0.  odeint's numerical integration of the stochastic forcing   *)
(* is a nondeterministic choice of the end state from a grid.              *)
(***************************************************************************)
EXTENDS Integers, Sequences, FiniteSets, TLC

VARIABLES
    \* main.py locals and the Visualizer fields the driver reads
    pc, running, simulation_running, timer_started, slider_held, params,
    physics_model, generator, energy_storage,
    wind_speed, total_energy_single_window,
    dt, current_power, joules_this_cycle_single_window,
    \* the exception that ended the program, or "none"
    raised,
    \* bookkeeping: simulation steps taken, the last method call with its
    \* arguments and return value, and the call before it
    steps, call, prev

vars == <<pc, running, simulation_running, timer_started, slider_held, params,
          physics_model, generator, energy_storage,
          wind_speed, total_energy_single_window,
          dt, current_power, joules_this_cycle_single_window,
          raised, steps, call, prev>>

driverVars == <<pc, running, simulation_running, timer_started, slider_held,
                params, wind_speed, total_energy_single_window,
                dt, current_power, joules_this_cycle_single_window, steps>>

-----------------------------------------------------------------------------
(* Exact rational arithmetic.                                               *)

RECURSIVE GCD(_, _)
GCD(a, b) == IF b = 0 THEN a ELSE GCD(b, a % b)

IAbs(n) == IF n < 0 THEN -n ELSE n

Frac(n, d) ==
    LET g == GCD(IAbs(n), IAbs(d))
        s == IF d < 0 THEN -1 ELSE 1
    IN  <<(s * n) \div g, (s * d) \div g>>

Z(n) == <<n, 1>>

QAdd(a, b) == Frac(a[1] * b[2] + b[1] * a[2], a[2] * b[2])
QSub(a, b) == Frac(a[1] * b[2] - b[1] * a[2], a[2] * b[2])
QMul(a, b) == Frac(a[1] * b[1], a[2] * b[2])
QDiv(a, b) == Frac(a[1] * b[2], a[2] * b[1])
QLe(a, b) == a[1] * b[2] <= b[1] * a[2]
QLt(a, b) == a[1] * b[2] < b[1] * a[2]
QAbs(a) == <<IAbs(a[1]), a[2]>>
\* Python's min(a, b) and max(a, b): the first argument unless the second
\* is strictly smaller (larger).
QMin(a, b) == IF QLt(b, a) THEN b ELSE a
QMax(a, b) == IF QLt(a, b) THEN b ELSE a

NoneObj == [class |-> "NoneType"]
NoCall == [op |-> "none"]

-----------------------------------------------------------------------------
(* energy_storage.py                                                        *)

EnergyStorage_init(capacity_joules, discharge_rate_watts) ==
    [class |-> "EnergyStorage",
     capacity |-> capacity_joules,
     stored_energy |-> Z(0),
     state_of_charge |-> Z(0),
     discharge_rate |-> discharge_rate_watts]

\* stored_energy / capacity raises ZeroDivisionError when capacity is 0.
ES_update_state_of_charge_raises(es) == es.capacity = Z(0)

ES_update_state_of_charge(es) ==
    IF ES_update_state_of_charge_raises(es)
    THEN es
    ELSE [es EXCEPT !.state_of_charge =
              QMul(QDiv(es.stored_energy, es.capacity), Z(100))]

\* A version of update that floors at zero between discharge and charge.
ES_update_floor_between(es, dt_, joules_to_add) ==
    LET joules_to_discharge == QMul(es.discharge_rate, dt_)
        s1 == QMax(Z(0), QSub(es.stored_energy, joules_to_discharge))
        s2 == QAdd(s1, joules_to_add)
        s3 == QMin(s2, es.capacity)
    IN  ES_update_state_of_charge([es EXCEPT !.stored_energy = s3])

\* A version of update that does not cap at capacity.
ES_update_no_cap(es, dt_, joules_to_add) ==
    LET joules_to_discharge == QMul(es.discharge_rate, dt_)
        s1 == QSub(es.stored_energy, joules_to_discharge)
        s2 == QAdd(s1, joules_to_add)
        s3 == QMax(Z(0), s2)
    IN  ES_update_state_of_charge([es EXCEPT !.stored_energy = s3])

\* A version of update that discharges over half a second at least,
\* whatever the dt.
ES_update_min_dt(es, dt_, joules_to_add) ==
    LET joules_to_discharge == QMul(es.discharge_rate, QMax(dt_, <<1, 2>>))
        s1 == QSub(es.stored_energy, joules_to_discharge)
        s2 == QAdd(s1, joules_to_add)
        s3 == QMax(Z(0), s2)
        s4 == QMin(s3, es.capacity)
    IN  ES_update_state_of_charge([es EXCEPT !.stored_energy = s4])

ES_update(es, dt_, joules_to_add) ==
    LET joules_to_discharge == QMul(es.discharge_rate, dt_)
        s1 == QSub(es.stored_energy, joules_to_discharge)
        s2 == QAdd(s1, joules_to_add)
        s3 == QMax(Z(0), s2)
        s4 == QMin(s3, es.capacity)
    IN  ES_update_state_of_charge([es EXCEPT !.stored_energy = s4])

ES_update_raises(es) == ES_update_state_of_charge_raises(es)

-----------------------------------------------------------------------------
(* generator.py                                                             *)

PowerLimit == 10

VibrationGenerator_init(piezo_const, resistance, max_voltage, efficiency) ==
    [class |-> "VibrationGenerator",
     piezo_const |-> piezo_const,
     resistance |-> resistance,
     max_voltage |-> max_voltage,
     power_output |-> Z(0),
     efficiency |-> efficiency]

\* voltage**2 / resistance raises ZeroDivisionError when resistance is 0.
VG_calculate_power_raises(g) == g.resistance = Z(0)

\* A version of calculate_power without the 10 W limit.
VG_calculate_power_unlimited(g, displacement, velocity) ==
    IF VG_calculate_power_raises(g)
    THEN g
    ELSE LET voltage == QMin(QMul(g.piezo_const, QAbs(velocity)), g.max_voltage)
             power_unlimited == QDiv(QMul(voltage, voltage), g.resistance)
         IN  [g EXCEPT !.power_output = QMul(power_unlimited, g.efficiency)]

\* A version of calculate_power that uses the signed velocity.
VG_calculate_power_signed(g, displacement, velocity) ==
    IF VG_calculate_power_raises(g)
    THEN g
    ELSE LET voltage == QMin(QMul(g.piezo_const, velocity), g.max_voltage)
             power_unlimited == QDiv(QMul(voltage, voltage), g.resistance)
         IN  [g EXCEPT !.power_output =
                  QMul(QMin(power_unlimited, Z(PowerLimit)), g.efficiency)]

\* The generator after calculate_power; the value returned is its
\* power_output.
VG_calculate_power(g, displacement, velocity) ==
    IF VG_calculate_power_raises(g)
    THEN g
    ELSE LET voltage == QMin(QMul(g.piezo_const, QAbs(velocity)), g.max_voltage)
             power_unlimited == QDiv(QMul(voltage, voltage), g.resistance)
         IN  [g EXCEPT !.power_output =
                  QMul(QMin(power_unlimited, Z(PowerLimit)), g.efficiency)]

\* A version of calculate_energy_this_cycle that forgets the time step.
VG_calculate_energy_this_cycle_no_dt(g, dt_) == g.power_output

\* The value calculate_energy_this_cycle returns; it assigns nothing.
VG_calculate_energy_this_cycle(g, dt_) == QMul(g.power_output, dt_)

-----------------------------------------------------------------------------
(* physics_model.py                                                         *)

\* np.sqrt and np.pi: the square root is exact on squares of rationals and
\* otherwise rounded down to a multiple of 1/(d * SqrtScale).
SqrtScale == 100
MaxRoot == 46340

RECURSIVE ISqrtIter(_, _, _)
ISqrtIter(n, lo, hi) ==
    IF lo >= hi THEN lo
    ELSE LET mid == (lo + hi + 1) \div 2
         IN  IF mid * mid <= n THEN ISqrtIter(n, mid, hi)
                               ELSE ISqrtIter(n, lo, mid - 1)

ISqrt(n) == ISqrtIter(n, 0, IF n < MaxRoot THEN n ELSE MaxRoot)

SqrtQ(r) ==
    LET n == r[1]
        d == r[2]
        rn == ISqrt(n)
        rd == ISqrt(d)
    IN  IF rd * rd = d
        THEN IF rn * rn = n
             THEN Frac(rn, rd)
             ELSE Frac(ISqrt(n * SqrtScale * SqrtScale), rd * SqrtScale)
        ELSE Frac(ISqrt(n * d * SqrtScale * SqrtScale), d * SqrtScale)

PiQ == <<355, 113>>

PowerHistoryMaxlen == 200
AvgPowerWindowMaxlen == 60 * 5

PM_calculate_damping_ratio(pm) ==
    IF QLt(Z(0), pm.k) /\ QLt(Z(0), pm.m)
    THEN QDiv(pm.c1, QMul(Z(2), SqrtQ(QMul(pm.k, pm.m))))
    ELSE Z(0)

PM_calculate_resonant_frequency(pm) ==
    LET damping_ratio == PM_calculate_damping_ratio(pm)
    IN  IF QLe(Z(1), damping_ratio)
        THEN Z(0)
        ELSE IF QLt(Z(0), pm.m) /\ QLt(Z(0), pm.k)
             THEN LET omega_n == SqrtQ(QDiv(pm.k, pm.m))
                      omega_d == QMul(omega_n,
                                      SqrtQ(QSub(Z(1), QMul(damping_ratio,
                                                            damping_ratio))))
                  IN  QDiv(omega_d, QMul(Z(2), PiQ))
             ELSE Z(0)

PhysicsModel_init(mass, damping, stiffness, area, max_elec_damping) ==
    LET pm0 == [class |-> "PhysicsModel",
                m |-> mass,
                c1 |-> damping,
                c2 |-> <<1, 2>>,
                max_c_elec |-> max_elec_damping,
                c_elec |-> Z(0),
                k |-> stiffness,
                A |-> area,
                state |-> <<Z(0), Z(0)>>,
                time |-> Z(0),
                wind_speed |-> Z(0),
                displacement |-> Z(0),
                velocity |-> Z(0),
                max_displacement |-> <<1, 100>>,
                failed |-> FALSE,
                damping_ratio |-> Z(0),
                resonant_frequency |-> Z(0),
                power_history |-> <<>>,
                avg_power_window |-> <<>>,
                average_power |-> Z(0)]
    IN  [pm0 EXCEPT !.damping_ratio = PM_calculate_damping_ratio(pm0),
                    !.resonant_frequency = PM_calculate_resonant_frequency(pm0)]

\* The end states odeint(self._vibration_equation, self.state, [0, dt])[-1]
\* can return.  update integrates only with wind_speed > 0 on a model that
\* has not failed, so the derivative is the forced, noisy equation: over an
\* interval of positive length the end state is any point of the grid; over
\* the empty interval [0, 0] it is the initial state.
MaxGrid == 2
DisplacementGrid == {<<1, 200>>} \cup {Frac(i, 100) : i \in -MaxGrid..MaxGrid}
VelocityGrid == {Z(-1), Z(2)}

OdeintEnd(pm, dt_, ys, vs) ==
    IF dt_ = Z(0)
    THEN {pm.state}
    ELSE {<<y, v>> : y \in ys, v \in vs}

\* Electrical damping without the 0.5 floor term.
PM_electrical_damping_no_floor(pm, es) ==
    IF es # NoneObj
    THEN QMul(pm.max_c_elec, QSub(Z(1), QDiv(es.state_of_charge, Z(100))))
    ELSE pm.c_elec

\* The c_elec that update assigns (left alone without an energy store).
PM_electrical_damping(pm, es) ==
    IF es # NoneObj
    THEN LET charge_level == es.state_of_charge
             min_c_elec == <<1, 2>>
         IN  QAdd(QMul(pm.max_c_elec,
                       QSub(Z(1), QDiv(charge_level, Z(100)))),
                  min_c_elec)
    ELSE pm.c_elec

\* A failure check that fires at the limit itself.
PM_failure_check_at_limit(pm) ==
    IF QLe(pm.max_displacement, QAbs(pm.displacement))
    THEN [pm EXCEPT !.failed = TRUE]
    ELSE pm

PM_failure_check(pm) ==
    IF QLt(pm.max_displacement, QAbs(pm.displacement))
    THEN [pm EXCEPT !.failed = TRUE]
    ELSE pm

\* A version of update that recomputes failed on every call instead of
\* latching it.
PM_update_recomputed(pm, wind, dt_, es, integrated) ==
    LET p1 == [pm EXCEPT !.wind_speed = wind,
                         !.c_elec = PM_electrical_damping(pm, es)]
        p2 == [p1 EXCEPT !.damping_ratio = PM_calculate_damping_ratio(p1),
                         !.resonant_frequency =
                             PM_calculate_resonant_frequency(p1)]
        st == IF QLt(Z(0), wind) THEN integrated ELSE <<Z(0), Z(0)>>
    IN  [p2 EXCEPT !.state = st,
                   !.time = QAdd(p2.time, dt_),
                   !.displacement = st[1],
                   !.velocity = st[2],
                   !.failed = QLt(p2.max_displacement, QAbs(st[1]))]

\* A version of update that integrates whatever the wind speed, without the
\* reset to [0, 0] in still air.
PM_update_no_reset(pm, wind, dt_, es, integrated) ==
    IF pm.failed
    THEN [pm EXCEPT !.wind_speed = Z(0),
                    !.displacement = Z(0),
                    !.velocity = Z(0)]
    ELSE LET p1 == [pm EXCEPT !.wind_speed = wind,
                              !.c_elec = PM_electrical_damping(pm, es)]
             p2 == [p1 EXCEPT !.damping_ratio = PM_calculate_damping_ratio(p1),
                              !.resonant_frequency =
                                  PM_calculate_resonant_frequency(p1)]
             p3 == [p2 EXCEPT !.state = integrated,
                              !.time = QAdd(p2.time, dt_),
                              !.displacement = integrated[1],
                              !.velocity = integrated[2]]
         IN  PM_failure_check(p3)

\* A version of update whose early return on a failed model comes after the
\* clock has been advanced.
PM_update_failed_advances(pm, wind, dt_, es, integrated) ==
    IF pm.failed
    THEN [pm EXCEPT !.wind_speed = Z(0),
                    !.displacement = Z(0),
                    !.velocity = Z(0),
                    !.time = QAdd(pm.time, dt_)]
    ELSE LET p1 == [pm EXCEPT !.wind_speed = wind,
                              !.c_elec = PM_electrical_damping(pm, es)]
             p2 == [p1 EXCEPT !.damping_ratio = PM_calculate_damping_ratio(p1),
                              !.resonant_frequency =
                                  PM_calculate_resonant_frequency(p1)]
             st == IF QLt(Z(0), wind) THEN integrated ELSE <<Z(0), Z(0)>>
             p3 == [p2 EXCEPT !.state = st,
                              !.time = QAdd(p2.time, dt_),
                              !.displacement = st[1],
                              !.velocity = st[2]]
         IN  PM_failure_check(p3)

\* The model after update(wind_speed, dt, energy_storage); integrated is the
\* end state odeint returned, read only when wind_speed > 0.
PM_update(pm, wind, dt_, es, integrated) ==
    IF pm.failed
    THEN [pm EXCEPT !.wind_speed = Z(0),
                    !.displacement = Z(0),
                    !.velocity = Z(0)]
    ELSE LET p1 == [pm EXCEPT !.wind_speed = wind,
                              !.c_elec = PM_electrical_damping(pm, es)]
             p2 == [p1 EXCEPT !.damping_ratio = PM_calculate_damping_ratio(p1),
                              !.resonant_frequency =
                                  PM_calculate_resonant_frequency(p1)]
             st == IF QLt(Z(0), wind) THEN integrated ELSE <<Z(0), Z(0)>>
             p3 == [p2 EXCEPT !.state = st,
                              !.time = QAdd(p2.time, dt_),
                              !.displacement = st[1],
                              !.velocity = st[2]]
         IN  PM_failure_check(p3)

\* The end states the integration inside update can produce, on the grid
\* ys x vs.
PM_update_integrations(pm, wind, dt_, ys, vs) ==
    IF ~pm.failed /\ QLt(Z(0), wind) THEN OdeintEnd(pm, dt_, ys, vs)
    ELSE {pm.state}

\* An append that never evicts.
DequeAppend_no_evict(q, x, maxlen) == Append(q, x)

\* deque(maxlen=...).append: at capacity the oldest entry goes.
DequeAppend(q, x, maxlen) ==
    IF Len(q) >= maxlen THEN Append(Tail(q), x) ELSE Append(q, x)

\* sum(...) of a deque, added up by halves (the sums are exact, so the
\* grouping does not matter).
RECURSIVE QSum(_)
QSum(q) ==
    IF q = <<>> THEN Z(0)
    ELSE IF Len(q) = 1 THEN q[1]
    ELSE LET h == Len(q) \div 2
         IN  QAdd(QSum(SubSeq(q, 1, h)), QSum(SubSeq(q, h + 1, Len(q))))

PM_update_power_metrics(pm, power) ==
    LET mw == QMul(power, Z(1000))
        ph == DequeAppend(pm.power_history, mw, PowerHistoryMaxlen)
        aw == DequeAppend(pm.avg_power_window, mw, AvgPowerWindowMaxlen)
    IN  [pm EXCEPT !.power_history = ph,
                   !.avg_power_window = aw,
                   !.average_power = IF Len(aw) > 0
                                     THEN QDiv(QSum(aw), Z(Len(aw)))
                                     ELSE Z(0)]

-----------------------------------------------------------------------------
(* visualizer.py: the parameter bundle and the frame clock                  *)

\* Visualizer.__init__'s self.params
DefaultParams ==
    [mass |-> Z(10), damping |-> Z(10), stiffness |-> Z(100000),
     area |-> <<1, 2>>, max_elec_damping |-> Z(5), efficiency |-> <<2, 5>>,
     discharge_rate |-> <<3, 1000>>, piezo_const |-> Z(25),
     resistance |-> Z(10000)]

\* The sliders the model drags, in the order of Visualizer.sliders, each with
\* the value at the right end of its track, where it is dragged to.
SliderOrder == <<"max_elec_damping">>
SliderEnd == [max_elec_damping |-> Z(20)]
SliderNames == {SliderOrder[i] : i \in DOMAIN SliderOrder}

\* The program before the driver has started anything: main's locals and the
\* Visualizer's fields as main() and Visualizer.__init__ set them.
DriverIdle ==
    /\ pc = "top"
    /\ running = TRUE
    /\ simulation_running = FALSE
    /\ timer_started = FALSE
    /\ slider_held = {}
    /\ params = DefaultParams
    /\ wind_speed = Z(0)
    /\ total_energy_single_window = Z(0)
    /\ dt = Z(0)
    /\ current_power = Z(0)
    /\ joules_this_cycle_single_window = Z(0)
    /\ steps = 0

-----------------------------------------------------------------------------
(* main.py: the driver loop.  pc is the place in the loop body:             *)
(*   top -> events -> [update -> check_failed -> power -> metrics ->        *)
(*   energy -> store ->] draw -> top, or exit once running is false.        *)

NUM_WINDOWS == 100
StoreDefaultCapacity == 50000
GenDefaultMaxVoltage == 100
FrameRate == 60
\* wind_up: if wind_speed > 30: wind_speed = 30
MaxWind == 30
MaxSteps == 2

\* Visualizer.get_delta_time: clock.tick(60) returns the milliseconds since
\* the previous tick, never less than 1000 \div 60; the frames taken here
\* are long ones, of one second.
FrameMs == {ms \in {1000} : ms >= 1000 \div FrameRate}

\* The end states of the integration the driver's runs take: one inside the
\* displacement limit and one beyond it.
DriverDisplacements == {<<1, 200>>, <<-1, 50>>}
DriverVelocities == {Z(2)}

GetDeltaTimes == IF timer_started THEN {Frac(ms, 1000) : ms \in FrameMs}
                                  ELSE {Z(0)}

\* The order main() makes its calls in within one simulation step.
StepOrder_store_first ==
    <<"store", "update", "check_failed", "power", "metrics", "energy">>

StepOrder ==
    <<"update", "check_failed", "power", "metrics", "energy", "store">>

StepIndex(p) == CHOOSE i \in DOMAIN StepOrder : StepOrder[i] = p

AfterStep(p) ==
    IF StepIndex(p) = Len(StepOrder) THEN "draw"
    ELSE StepOrder[StepIndex(p) + 1]

MainGetDeltaTime ==
    /\ pc = "top"
    /\ raised = "none"
    /\ \E d \in GetDeltaTimes : dt' = d
    /\ pc' = "events"
    /\ UNCHANGED <<running, simulation_running, timer_started, slider_held,
                   params, physics_model, generator, energy_storage,
                   wind_speed, total_energy_single_window, current_power,
                   joules_this_cycle_single_window, raised, steps, call, prev>>

EventsIdle ==
    UNCHANGED <<pc, dt, current_power, joules_this_cycle_single_window,
                raised, steps, prev>>

\* In the driver, call remembers whether handle_mouse_click has returned
\* 'wind_up' or 'wind_down' since the last 'start' or 'stop'.
WindClick == [op |-> "wind_click"]

\* pygame.QUIT
EvQuit ==
    /\ pc = "events"
    /\ running' = FALSE
    /\ EventsIdle
    /\ UNCHANGED call
    /\ UNCHANGED <<simulation_running, timer_started, slider_held, params,
                   physics_model, generator, energy_storage, wind_speed,
                   total_energy_single_window>>

\* Visualizer.handle_mouse_click on the thing under the pointer: what it
\* returns and what it leaves in the Visualizer's fields.
ClickTargets ==
    {"start_button", "stop_button", "wind_up_button", "wind_down_button",
     "elsewhere"} \cup SliderNames

\* A handle_mouse_click whose start button sets simulation_running without
\* returning 'start', so that main constructs nothing.
HandleMouseClick_start_unreported(target) ==
    IF ~simulation_running
    THEN IF target = "start_button"
         THEN [action |-> "None", simulation_running |-> TRUE,
               timer_started |-> timer_started, slider_held |-> slider_held]
         ELSE [action |-> "None", simulation_running |-> FALSE,
               timer_started |-> timer_started,
               slider_held |-> IF target \in SliderNames
                               THEN slider_held \cup {target}
                               ELSE slider_held]
    ELSE IF target = "stop_button"
         THEN [action |-> "stop", simulation_running |-> FALSE,
               timer_started |-> FALSE, slider_held |-> slider_held]
         ELSE IF target = "wind_up_button"
         THEN [action |-> "wind_up", simulation_running |-> TRUE,
               timer_started |-> TRUE, slider_held |-> slider_held]
         ELSE IF target = "wind_down_button"
         THEN [action |-> "wind_down", simulation_running |-> TRUE,
               timer_started |-> TRUE, slider_held |-> slider_held]
         ELSE [action |-> "None", simulation_running |-> TRUE,
               timer_started |-> timer_started, slider_held |-> slider_held]

HandleMouseClick(target) ==
    IF ~simulation_running
    THEN IF target = "start_button"
         THEN [action |-> "start", simulation_running |-> TRUE,
               timer_started |-> timer_started, slider_held |-> slider_held]
         ELSE [action |-> "None", simulation_running |-> FALSE,
               timer_started |-> timer_started,
               slider_held |-> IF target \in SliderNames
                               THEN slider_held \cup {target}
                               ELSE slider_held]
    ELSE IF target = "stop_button"
         THEN [action |-> "stop", simulation_running |-> FALSE,
               timer_started |-> FALSE, slider_held |-> slider_held]
         ELSE IF target = "wind_up_button"
         THEN [action |-> "wind_up", simulation_running |-> TRUE,
               timer_started |-> TRUE, slider_held |-> slider_held]
         ELSE IF target = "wind_down_button"
         THEN [action |-> "wind_down", simulation_running |-> TRUE,
               timer_started |-> TRUE, slider_held |-> slider_held]
         ELSE [action |-> "None", simulation_running |-> TRUE,
               timer_started |-> timer_started, slider_held |-> slider_held]

\* A MOUSEBUTTONDOWN handler whose wind_down does not stop at 0.
EvMouseButtonDown_unclamped(target) ==
    /\ pc = "events"
    /\ LET r == HandleMouseClick(target)
       IN  /\ simulation_running' = r.simulation_running
           /\ timer_started' = r.timer_started
           /\ slider_held' = r.slider_held
           /\ IF r.action = "start"
              THEN /\ physics_model' =
                          PhysicsModel_init(params.mass, params.damping,
                                            params.stiffness, params.area,
                                            params.max_elec_damping)
                   /\ generator' =
                          VibrationGenerator_init(params.piezo_const,
                                                  params.resistance,
                                                  Z(GenDefaultMaxVoltage),
                                                  params.efficiency)
                   /\ energy_storage' =
                          EnergyStorage_init(Z(StoreDefaultCapacity),
                                             params.discharge_rate)
                   /\ wind_speed' = Z(0)
                   /\ total_energy_single_window' = Z(0)
              ELSE IF r.action = "stop"
              THEN /\ physics_model' = NoneObj
                   /\ generator' = NoneObj
                   /\ energy_storage' = NoneObj
                   /\ wind_speed' = Z(0)
                   /\ total_energy_single_window' = Z(0)
              ELSE IF r.action = "wind_up" /\ r.simulation_running
              THEN /\ wind_speed' =
                          LET w == QAdd(wind_speed, <<1, 2>>)
                          IN  IF QLt(Z(MaxWind), w) THEN Z(MaxWind) ELSE w
                   /\ UNCHANGED <<physics_model, generator, energy_storage,
                                  total_energy_single_window>>
              ELSE IF r.action = "wind_down" /\ r.simulation_running
              THEN /\ wind_speed' = QSub(wind_speed, Z(1))
                   /\ UNCHANGED <<physics_model, generator, energy_storage,
                                  total_energy_single_window>>
              ELSE UNCHANGED <<physics_model, generator, energy_storage,
                               wind_speed, total_energy_single_window>>
           /\ call' = IF r.action \in {"start", "stop"} THEN NoCall
                      ELSE IF r.action \in {"wind_up", "wind_down"}
                      THEN WindClick
                      ELSE call
    /\ EventsIdle
    /\ UNCHANGED <<running, params>>

\* pygame.MOUSEBUTTONDOWN with button 1
EvMouseButtonDown(target) ==
    /\ pc = "events"
    /\ LET r == HandleMouseClick(target)
       IN  /\ simulation_running' = r.simulation_running
           /\ timer_started' = r.timer_started
           /\ slider_held' = r.slider_held
           /\ IF r.action = "start"
              THEN /\ physics_model' =
                          PhysicsModel_init(params.mass, params.damping,
                                            params.stiffness, params.area,
                                            params.max_elec_damping)
                   /\ generator' =
                          VibrationGenerator_init(params.piezo_const,
                                                  params.resistance,
                                                  Z(GenDefaultMaxVoltage),
                                                  params.efficiency)
                   /\ energy_storage' =
                          EnergyStorage_init(Z(StoreDefaultCapacity),
                                             params.discharge_rate)
                   /\ wind_speed' = Z(0)
                   /\ total_energy_single_window' = Z(0)
              ELSE IF r.action = "stop"
              THEN /\ physics_model' = NoneObj
                   /\ generator' = NoneObj
                   /\ energy_storage' = NoneObj
                   /\ wind_speed' = Z(0)
                   /\ total_energy_single_window' = Z(0)
              ELSE IF r.action = "wind_up" /\ r.simulation_running
              THEN /\ wind_speed' =
                          LET w == QAdd(wind_speed, <<1, 2>>)
                          IN  IF QLt(Z(MaxWind), w) THEN Z(MaxWind) ELSE w
                   /\ UNCHANGED <<physics_model, generator, energy_storage,
                                  total_energy_single_window>>
              ELSE IF r.action = "wind_down" /\ r.simulation_running
              THEN /\ wind_speed' =
                          LET w == QSub(wind_speed, Z(1))
                          IN  IF QLt(w, Z(0)) THEN Z(0) ELSE w
                   /\ UNCHANGED <<physics_model, generator, energy_storage,
                                  total_energy_single_window>>
              ELSE UNCHANGED <<physics_model, generator, energy_storage,
                               wind_speed, total_energy_single_window>>
           /\ call' = IF r.action \in {"start", "stop"} THEN NoCall
                      ELSE IF r.action \in {"wind_up", "wind_down"}
                      THEN WindClick
                      ELSE call
    /\ EventsIdle
    /\ UNCHANGED <<running, params>>

\* pygame.MOUSEBUTTONUP: Visualizer.handle_mouse_release
EvMouseButtonUp ==
    /\ pc = "events"
    /\ slider_held' = {}
    /\ EventsIdle
    /\ UNCHANGED call
    /\ UNCHANGED <<running, simulation_running, timer_started, params,
                   physics_model, generator, energy_storage, wind_speed,
                   total_energy_single_window>>

\* pygame.MOUSEMOTION: Visualizer.handle_mouse_drag moves the first slider
\* that is held.
EvMouseMotion ==
    /\ pc = "events"
    /\ slider_held # {}
    /\ LET i == CHOOSE i \in DOMAIN SliderOrder :
                    /\ SliderOrder[i] \in slider_held
                    /\ \A j \in 1..(i - 1) : SliderOrder[j] \notin slider_held
           name == SliderOrder[i]
       IN  params' = [params EXCEPT ![name] = SliderEnd[name]]
    /\ EventsIdle
    /\ UNCHANGED call
    /\ UNCHANGED <<running, simulation_running, timer_started, slider_held,
                   physics_model, generator, energy_storage, wind_speed,
                   total_energy_single_window>>

\* The event loop is done: the simulation step runs if everything is there.
\* A run takes at most MaxSteps steps (each appends to power_history).
MainEndEvents ==
    /\ pc = "events"
    /\ IF /\ simulation_running
          /\ physics_model # NoneObj
          /\ generator # NoneObj
          /\ energy_storage # NoneObj
       THEN /\ Len(physics_model.power_history) < MaxSteps
            /\ pc' = StepOrder[1]
       ELSE pc' = "draw"
    /\ UNCHANGED <<steps, running, simulation_running, timer_started, slider_held,
                   params, physics_model, generator, energy_storage,
                   wind_speed, total_energy_single_window, dt, current_power,
                   joules_this_cycle_single_window, raised, call, prev>>

\* physics_model.update(wind_speed, dt, energy_storage)
MainUpdate ==
    /\ pc = "update"
    /\ \E integrated \in
           PM_update_integrations(physics_model, wind_speed, dt,
                                  DriverDisplacements, DriverVelocities) :
           physics_model' = PM_update(physics_model, wind_speed, dt,
                                      energy_storage, integrated)
    /\ pc' = AfterStep("update")
    /\ UNCHANGED <<running, simulation_running, timer_started, slider_held,
                   params, generator, energy_storage, wind_speed,
                   total_energy_single_window, dt, current_power,
                   joules_this_cycle_single_window, raised, steps, call, prev>>

\* A failure test that stops the wind and leaves the simulation running.
MainCheckFailed_keeps_running ==
    /\ pc = "check_failed"
    /\ IF physics_model.failed
       THEN /\ wind_speed' = Z(0)
            /\ UNCHANGED simulation_running
       ELSE UNCHANGED <<simulation_running, wind_speed>>
    /\ pc' = AfterStep("check_failed")
    /\ UNCHANGED <<running, timer_started, slider_held, params,
                   physics_model, generator, energy_storage,
                   total_energy_single_window, dt, current_power,
                   joules_this_cycle_single_window, raised, steps, call, prev>>

\* if physics_model.failed: stop the simulation and the wind
MainCheckFailed ==
    /\ pc = "check_failed"
    /\ IF physics_model.failed
       THEN /\ simulation_running' = FALSE
            /\ wind_speed' = Z(0)
       ELSE UNCHANGED <<simulation_running, wind_speed>>
    /\ pc' = AfterStep("check_failed")
    /\ UNCHANGED <<running, timer_started, slider_held, params,
                   physics_model, generator, energy_storage,
                   total_energy_single_window, dt, current_power,
                   joules_this_cycle_single_window, raised, steps, call, prev>>

\* current_power = generator.calculate_power(displacement, velocity)
MainCalculatePower ==
    /\ pc = "power"
    /\ generator' = VG_calculate_power(generator, physics_model.displacement,
                                       physics_model.velocity)
    /\ IF VG_calculate_power_raises(generator)
       THEN /\ raised' = "ZeroDivisionError"
            /\ pc' = "exit"
            /\ UNCHANGED current_power
       ELSE /\ current_power' = generator'.power_output
            /\ pc' = AfterStep("power")
            /\ UNCHANGED raised
    /\ UNCHANGED <<running, simulation_running, timer_started, slider_held,
                   params, physics_model, energy_storage, wind_speed,
                   total_energy_single_window, dt,
                   joules_this_cycle_single_window, steps, call, prev>>

\* physics_model.update_power_metrics(current_power)
MainUpdatePowerMetrics ==
    /\ pc = "metrics"
    /\ physics_model' = PM_update_power_metrics(physics_model, current_power)
    /\ pc' = AfterStep("metrics")
    /\ UNCHANGED <<running, simulation_running, timer_started, slider_held,
                   params, generator, energy_storage, wind_speed,
                   total_energy_single_window, dt, current_power,
                   joules_this_cycle_single_window, raised, steps, call, prev>>

\* joules_this_cycle_single_window = generator.calculate_energy_this_cycle(dt)
MainCalculateEnergy ==
    /\ pc = "energy"
    /\ joules_this_cycle_single_window' =
           VG_calculate_energy_this_cycle(generator, dt)
    /\ pc' = AfterStep("energy")
    /\ UNCHANGED <<running, simulation_running, timer_started, slider_held,
                   params, physics_model, generator, energy_storage,
                   wind_speed, total_energy_single_window, dt, current_power,
                   raised, steps, call, prev>>

\* energy_storage.update(dt, joules * NUM_WINDOWS), then the running total
\* of the single window
MainStoreUpdate ==
    /\ pc = "store"
    /\ energy_storage' =
           ES_update(energy_storage, dt,
                     QMul(joules_this_cycle_single_window, Z(NUM_WINDOWS)))
    /\ IF ES_update_raises(energy_storage)
       THEN /\ raised' = "ZeroDivisionError"
            /\ pc' = "exit"
            /\ UNCHANGED total_energy_single_window
       ELSE /\ total_energy_single_window' =
                   QAdd(total_energy_single_window,
                        joules_this_cycle_single_window)
            /\ pc' = AfterStep("store")
            /\ UNCHANGED raised
    /\ UNCHANGED <<running, simulation_running, timer_started, slider_held,
                   params, physics_model, generator, wind_speed, dt,
                   current_power, joules_this_cycle_single_window, steps,
                   call, prev>>

\* visualizer.draw_elements(...): with simulation_running it reads
\* physics_model.power_history; then the loop tests running.
MainDraw ==
    /\ pc = "draw"
    /\ IF simulation_running /\ physics_model = NoneObj
       THEN /\ raised' = "AttributeError"
            /\ pc' = "exit"
       ELSE /\ pc' = IF running THEN "top" ELSE "exit"
            /\ UNCHANGED raised
    /\ UNCHANGED <<running, simulation_running, timer_started, slider_held,
                   params, physics_model, generator, energy_storage,
                   wind_speed, total_energy_single_window, dt, current_power,
                   joules_this_cycle_single_window, steps, call, prev>>

Init ==
    /\ DriverIdle
    /\ physics_model = NoneObj
    /\ generator = NoneObj
    /\ energy_storage = NoneObj
    /\ raised = "none"
    /\ call = NoCall
    /\ prev = NoCall

Next ==
    \/ MainGetDeltaTime
    \/ EvQuit
    \/ \E target \in ClickTargets : EvMouseButtonDown(target)
    \/ EvMouseButtonUp
    \/ EvMouseMotion
    \/ MainEndEvents
    \/ MainUpdate
    \/ MainCheckFailed
    \/ MainCalculatePower
    \/ MainUpdatePowerMetrics
    \/ MainCalculateEnergy
    \/ MainStoreUpdate
    \/ MainDraw

Spec == Init /\ [][Next]_vars

-----------------------------------------------------------------------------
(* EnergyStorage on its own: constructed with any capacity and discharge    *)
(* rate, then update called with any dt >= 0 and joules_to_add >= 0.        *)

MaxJoules == 4
StoreCapacities == {Z(-10), Z(0), Z(10), Z(20)}
StoreRates == {Z(0), Z(5)}
StoreDts == {Z(0), <<1, 2>>, Z(1)}
StoreJoules == {Z(j) : j \in 0..MaxJoules}

StoreInit ==
    /\ DriverIdle
    /\ physics_model = NoneObj
    /\ generator = NoneObj
    /\ energy_storage \in
           {EnergyStorage_init(c, r) : c \in StoreCapacities, r \in StoreRates}
    /\ raised = "none"
    /\ call = NoCall
    /\ prev = NoCall

StoreUpdate(dt_, joules_to_add) ==
    /\ raised = "none"
    /\ energy_storage' = ES_update(energy_storage, dt_, joules_to_add)
    /\ raised' = IF ES_update_raises(energy_storage)
                 THEN "ZeroDivisionError" ELSE "none"
    /\ call' = [op |-> "EnergyStorage.update", dt |-> dt_,
                joules_to_add |-> joules_to_add,
                stored_before |-> energy_storage.stored_energy]
    /\ UNCHANGED <<driverVars, physics_model, generator, prev>>

StoreNext == \E dt_ \in StoreDts, j \in StoreJoules : StoreUpdate(dt_, j)

StoreSpec == StoreInit /\ [][StoreNext]_vars

-----------------------------------------------------------------------------
(* VibrationGenerator on its own: constructed with any configuration, then  *)
(* calculate_power and calculate_energy_this_cycle called in any order.     *)
(* prev is the most recent calculate_power call made before the last call.  *)

GenPiezoConsts == {Z(15), Z(25)}
GenResistances == {Z(0), Z(100), Z(10000)}
GenMaxVoltages == {Z(20), Z(100)}
GenEfficiencies == {Z(0), <<2, 5>>, Z(1)}
GenVelocities == {Z(-10), Z(-2), Z(-1), Z(0), Z(1), Z(2), Z(10)}
GenDisplacements == {Z(0), <<1, 100>>}
GenDts == {Z(0), <<1, 60>>, Z(1)}

GenInit ==
    /\ DriverIdle
    /\ physics_model = NoneObj
    /\ energy_storage = NoneObj
    /\ generator \in
           {VibrationGenerator_init(p, r, mv, e) :
                p \in GenPiezoConsts, r \in GenResistances,
                mv \in GenMaxVoltages, e \in GenEfficiencies}
    /\ raised = "none"
    /\ call = NoCall
    /\ prev = NoCall

LastPowerCall == IF call.op = "calculate_power" THEN call ELSE prev

GenCalculatePower(displacement, velocity) ==
    /\ raised = "none"
    /\ generator' = VG_calculate_power(generator, displacement, velocity)
    /\ raised' = IF VG_calculate_power_raises(generator)
                 THEN "ZeroDivisionError" ELSE "none"
    /\ call' = [op |-> "calculate_power", displacement |-> displacement,
                velocity |-> velocity, ret |-> generator'.power_output]
    /\ prev' = LastPowerCall
    /\ UNCHANGED <<driverVars, physics_model, energy_storage>>

GenCalculateEnergy(dt_) ==
    /\ raised = "none"
    /\ call' = [op |-> "calculate_energy_this_cycle", dt |-> dt_,
                ret |-> VG_calculate_energy_this_cycle(generator, dt_)]
    /\ prev' = LastPowerCall
    /\ UNCHANGED <<driverVars, physics_model, energy_storage, generator,
                   raised>>

GenNext ==
    \/ \E d \in GenDisplacements, v \in GenVelocities : GenCalculatePower(d, v)
    \/ \E dt_ \in GenDts : GenCalculateEnergy(dt_)

GenSpec == GenInit /\ [][GenNext]_vars

-----------------------------------------------------------------------------
(* PhysicsModel on its own: constructed with a valid configuration, then    *)
(* update called with any wind speed in [0, 30], any dt >= 0 and any energy *)
(* store (or none), and update_power_metrics called with a power.  steps    *)
(* counts the update calls.                                                 *)

MaxPhysCalls == 2
MaxSamples == 1

PhysConfigs ==
    {PhysicsModel_init(Z(10), Z(10), Z(100000), <<1, 2>>, Z(5)),
     PhysicsModel_init(Z(1), Z(10), Z(4), Z(1), Z(0))}
PhysWinds == {Z(0), Z(30)}
PhysDts == {Z(0), <<1, 60>>}
\* energy stores as update leaves them, at 0, 50 and 100 percent
PhysStores ==
    {ES_update(EnergyStorage_init(Z(50000), Z(0)), Z(1), Z(j)) :
         j \in {0, 25000, 60000}}
PhysPowers == {<<1, 10>>}

PhysInit ==
    /\ DriverIdle
    /\ physics_model \in PhysConfigs
    /\ generator = NoneObj
    /\ energy_storage = NoneObj
    /\ raised = "none"
    /\ call = NoCall
    /\ prev = NoCall

PhysUpdate(wind, dt_, es, integrated) ==
    /\ steps < MaxPhysCalls
    /\ physics_model' = PM_update(physics_model, wind, dt_, es, integrated)
    /\ call' = [op |-> "update", wind_speed |-> wind, dt |-> dt_,
                energy_storage |-> es,
                before |-> [failed |-> physics_model.failed,
                            displacement |-> physics_model.displacement,
                            velocity |-> physics_model.velocity,
                            time |-> physics_model.time]]
    /\ steps' = steps + 1
    /\ UNCHANGED <<pc, running, simulation_running, timer_started,
                   slider_held, params, wind_speed,
                   total_energy_single_window, dt, current_power,
                   joules_this_cycle_single_window,
                   generator, energy_storage, raised, prev>>

PhysUpdatePowerMetrics(power) ==
    /\ Len(physics_model.power_history) < MaxSamples
    /\ physics_model' = PM_update_power_metrics(physics_model, power)
    /\ call' = [op |-> "update_power_metrics", current_power |-> power]
    /\ UNCHANGED <<driverVars, generator, energy_storage, raised, prev>>

PhysNext ==
    \/ \E wind \in PhysWinds, dt_ \in PhysDts,
          es \in PhysStores \cup {NoneObj} :
           \E integrated \in
                  PM_update_integrations(physics_model, wind, dt_,
                                         DisplacementGrid, VelocityGrid) :
               PhysUpdate(wind, dt_, es, integrated)
    \/ \E power \in PhysPowers : PhysUpdatePowerMetrics(power)

PhysSpec == PhysInit /\ [][PhysNext]_vars

-----------------------------------------------------------------------------
(* update_power_metrics on its own, called often enough to fill both        *)
(* deques and evict from them.  prev is the sequence of all the powers      *)
(* passed so far, steps their number.  The stream of powers is any periodic *)
(* one of period MaxPeriod over MetricsPowers: its first MaxPeriod samples  *)
(* are free, every later one repeats the sample MaxPeriod calls before.     *)

MaxMetricsCalls == 302
MaxPeriod == 2
MetricsPowers == {Z(0), <<1, 10>>, <<1, 4>>}

MetricsInit ==
    /\ DriverIdle
    /\ physics_model \in PhysConfigs
    /\ generator = NoneObj
    /\ energy_storage = NoneObj
    /\ raised = "none"
    /\ call = NoCall
    /\ prev = <<>>

MetricsUpdatePowerMetrics(power) ==
    /\ steps < MaxMetricsCalls
    /\ Len(prev) >= MaxPeriod => power = prev[Len(prev) + 1 - MaxPeriod]
    /\ physics_model' = PM_update_power_metrics(physics_model, power)
    /\ call' = [op |-> "update_power_metrics", current_power |-> power]
    /\ prev' = Append(prev, power)
    /\ steps' = steps + 1
    /\ UNCHANGED <<pc, running, simulation_running, timer_started,
                   slider_held, params, wind_speed,
                   total_energy_single_window, dt, current_power,
                   joules_this_cycle_single_window,
                   generator, energy_storage, raised>>

MetricsNext == \E power \in MetricsPowers : MetricsUpdatePowerMetrics(power)

MetricsSpec == MetricsInit /\ [][MetricsNext]_vars

-----------------------------------------------------------------------------
(* Properties of EnergyStorage (checked under StoreSpec)                    *)

Clamp(x, lo, hi) == IF QLt(x, lo) THEN lo ELSE IF QLt(hi, x) THEN hi ELSE x

StoreValid(es) ==
    /\ es # NoneObj
    /\ QLt(Z(0), es.capacity)
    /\ QLe(Z(0), es.discharge_rate)

\* C1: from a fresh EnergyStorage with capacity > 0 and discharge rate >= 0,
\* after any sequence of update(dt, joules_to_add) calls with dt >= 0 and
\* joules_to_add >= 0, 0 <= stored_energy <= capacity, state_of_charge is
\* stored_energy / capacity * 100, and it lies in [0, 100].
C1_StoredWithinCapacity ==
    StoreValid(energy_storage) =>
        /\ QLe(Z(0), energy_storage.stored_energy)
        /\ QLe(energy_storage.stored_energy, energy_storage.capacity)
        /\ energy_storage.state_of_charge =
               QMul(QDiv(energy_storage.stored_energy,
                         energy_storage.capacity), Z(100))
        /\ QLe(Z(0), energy_storage.state_of_charge)
        /\ QLe(energy_storage.state_of_charge, Z(100))

\* C1 witness: an update whose sum went past the capacity left the store
\* exactly full, at 100 percent.
C1_Witness ==
    /\ StoreValid(energy_storage)
    /\ call.op = "EnergyStorage.update"
    /\ QLt(energy_storage.capacity,
           QAdd(QSub(call.stored_before,
                     QMul(energy_storage.discharge_rate, call.dt)),
                call.joules_to_add))
    /\ energy_storage.stored_energy = energy_storage.capacity
    /\ energy_storage.state_of_charge = Z(100)

\* C2: update(dt, joules_to_add) sets stored_energy to
\* clamp(stored_before - discharge_rate * dt + joules_to_add, 0, capacity):
\* the floor at 0 is applied once, after both the discharge and the charge.
\* From 0 with discharge_rate * dt = 5 and joules_to_add = 3 the result is 0;
\* from 0 with update(1, 0) at discharge_rate 5 the result is 0 at 0 percent.
C2_ClampAfterSum ==
    (StoreValid(energy_storage) /\ call.op = "EnergyStorage.update") =>
        LET discharged == QMul(energy_storage.discharge_rate, call.dt)
        IN  /\ energy_storage.stored_energy =
                   Clamp(QAdd(QSub(call.stored_before, discharged),
                              call.joules_to_add),
                         Z(0), energy_storage.capacity)
            /\ (/\ call.stored_before = Z(0)
                /\ discharged = Z(5)
                /\ call.joules_to_add = Z(3))
                   => energy_storage.stored_energy = Z(0)
            /\ (/\ call.stored_before = Z(0)
                /\ energy_storage.discharge_rate = Z(5)
                /\ call.dt = Z(1)
                /\ call.joules_to_add = Z(0))
                   => /\ energy_storage.stored_energy = Z(0)
                      /\ energy_storage.state_of_charge = Z(0)

\* C2 witness: an empty store discharged by 5 and charged by 3 in one update
\* is still empty.
C2_Witness ==
    /\ StoreValid(energy_storage)
    /\ call.op = "EnergyStorage.update"
    /\ call.stored_before = Z(0)
    /\ QMul(energy_storage.discharge_rate, call.dt) = Z(5)
    /\ call.joules_to_add = Z(3)
    /\ energy_storage.stored_energy = Z(0)

\* C7: a zero or negative capacity (mass, stiffness, resistance) is rejected
\* or replaced by a default when the object is constructed, so that no later
\* operation (here EnergyStorage.update) reaches a division by that zero.
C7_NoZeroDivisionError == raised # "ZeroDivisionError"

-----------------------------------------------------------------------------
(* Properties of VibrationGenerator (checked under GenSpec)                 *)

GenValid(g) ==
    /\ g # NoneObj
    /\ QLt(Z(0), g.piezo_const)
    /\ QLt(Z(0), g.resistance)
    /\ QLe(Z(0), g.max_voltage)
    /\ QLe(Z(0), g.efficiency)
    /\ QLe(g.efficiency, Z(1))

\* C6: calculate_energy_this_cycle(dt) returns power_output * dt, where
\* power_output is the value the most recent calculate_power call stored
\* (0 if there was none), and it leaves power_output as it was.
C6_EnergyFromLastPower ==
    /\ [](call.op = "calculate_energy_this_cycle" =>
            /\ call.ret = QMul(generator.power_output, call.dt)
            /\ prev = NoCall => call.ret = Z(0)
            /\ prev # NoCall => call.ret = QMul(prev.ret, call.dt))
    /\ [][call'.op = "calculate_energy_this_cycle" =>
            generator'.power_output = generator.power_output]_vars

\* C6 witness: an energy call that follows a power call which stored a
\* positive power, with a dt that is neither 0 nor 1, returned a positive
\* energy.
C6_Witness ==
    /\ call.op = "calculate_energy_this_cycle"
    /\ prev # NoCall
    /\ QLt(Z(0), prev.ret)
    /\ call.dt = <<1, 60>>
    /\ call.ret = QMul(prev.ret, <<1, 60>>)

\* C8: for a generator with piezo_const > 0, resistance > 0,
\* max_voltage >= 0 and efficiency in [0, 1], and any velocity,
\* calculate_power returns p with 0 <= p <= 10 * efficiency, and the stored
\* power_output is the returned value.
C8_PowerBounded ==
    (GenValid(generator) /\ call.op = "calculate_power") =>
        /\ QLe(Z(0), call.ret)
        /\ QLe(call.ret, QMul(Z(10), generator.efficiency))
        /\ generator.power_output = call.ret

\* C8 witness: a call whose unlimited power is above 10 W returned exactly
\* 10 * efficiency, with efficiency > 0.
C8_Witness ==
    /\ GenValid(generator)
    /\ call.op = "calculate_power"
    /\ QLt(Z(0), generator.efficiency)
    /\ QLt(Z(10), QDiv(QMul(generator.max_voltage, generator.max_voltage),
                       generator.resistance))
    /\ QLe(generator.max_voltage,
           QMul(generator.piezo_const, QAbs(call.velocity)))
    /\ call.ret = QMul(Z(10), generator.efficiency)

\* C9: for a fixed valid generator, calculate_power depends only on
\* |velocity|: of two calls, the one with the smaller |velocity| returns no
\* more than the other, so v and -v give the same result and the
\* displacement argument makes no difference.
C9_PowerMonotoneInSpeed ==
    (GenValid(generator) /\ call.op = "calculate_power" /\ prev # NoCall) =>
        /\ QLe(QAbs(prev.velocity), QAbs(call.velocity))
               => QLe(prev.ret, call.ret)
        /\ QLe(QAbs(call.velocity), QAbs(prev.velocity))
               => QLe(call.ret, prev.ret)
        /\ QAbs(prev.velocity) = QAbs(call.velocity) => prev.ret = call.ret

\* C9 witness: two calls with opposite nonzero velocities and different
\* displacements returned the same positive power.
C9_Witness ==
    /\ GenValid(generator)
    /\ call.op = "calculate_power"
    /\ prev # NoCall
    /\ call.velocity = Z(-2)
    /\ prev.velocity = Z(2)
    /\ call.displacement # prev.displacement
    /\ QLt(Z(0), call.ret)
    /\ call.ret = prev.ret

\* C9 witness, the strict case: a call with a larger |velocity| returned
\* strictly more power.
C9_WitnessStrict ==
    /\ GenValid(generator)
    /\ call.op = "calculate_power"
    /\ prev # NoCall
    /\ QLt(QAbs(prev.velocity), QAbs(call.velocity))
    /\ QLt(prev.ret, call.ret)

-----------------------------------------------------------------------------
(* Properties of PhysicsModel (checked under PhysSpec)                      *)

\* C3: once failed is true it is never reset: it stays true through every
\* later update call, whatever the wind speed in [0, 30].
C3_FailedIsPermanent ==
    [][physics_model.failed => physics_model'.failed]_vars

\* C3 witness: update was called with wind speed 30 on a model that had
\* already failed, and the model is still failed.
C3_Witness ==
    /\ physics_model.failed
    /\ call.op = "update"
    /\ call.wind_speed = Z(30)
    /\ physics_model.wind_speed = Z(0)
    /\ physics_model.displacement = Z(0)

\* C4: in every reachable state with failed = true, the state left by the
\* update call that set failed included, displacement and velocity are both
\* exactly 0.
C4_FailedMeansAtRest ==
    physics_model.failed =>
        /\ physics_model.displacement = Z(0)
        /\ physics_model.velocity = Z(0)

-----------------------------------------------------------------------------
(* The feedback loop of the driver, under Spec.                             *)

\* The order in which one iteration of the main loop makes its calls.
C5_CallOrder ==
    {<<"top", "events">>, <<"events", "update">>, <<"events", "draw">>,
     <<"update", "check_failed">>, <<"check_failed", "power">>,
     <<"power", "metrics">>, <<"metrics", "energy">>,
     <<"energy", "store">>, <<"store", "draw">>,
     <<"draw", "top">>, <<"draw", "exit">>}

\* The calls of a step that come after mechanical.update.
C5_AfterUpdate == {"check_failed", "power", "metrics", "energy", "store"}

\* C5: the feedback is delayed by exactly one step.  Every driver iteration
\* makes its calls in the order update -> calculate_power ->
\* update_power_metrics -> calculate_energy_this_cycle -> store.update; the
\* store changes nowhere else within a step, so from update until
\* store.update the c_elec that update computed is the one of the state of
\* charge the previous step left (max_c_elec + 0.5, for the initial 0, in the
\* first step of a run), and store.update does not touch the c_elec: the
\* value produced in step N is read in step N+1 only.
C5_FeedbackDelayedOneStep ==
    /\ [][(pc' # pc) => (<<pc, pc'>> \in C5_CallOrder)]_vars
    /\ [][(pc \in {"update"} \cup (C5_AfterUpdate \ {"store"})) =>
              (energy_storage' = energy_storage)]_vars
    /\ [](pc \in C5_AfterUpdate =>
              physics_model.c_elec =
                  PM_electrical_damping(physics_model, energy_storage))
    /\ []((/\ pc \in {"check_failed", "power", "metrics"}
           /\ physics_model.power_history = <<>>) =>
              /\ energy_storage.state_of_charge = Z(0)
              /\ physics_model.c_elec =
                     QAdd(physics_model.max_c_elec, <<1, 2>>))
    /\ [][(pc = "store") => (physics_model' = physics_model)]_vars

\* C5 witness: the second step of a run has ended; its update read the
\* non-zero state of charge the first step left, and its store.update has
\* left another one, which the c_elec does not reflect.
C5_Witness ==
    /\ pc = "draw"
    /\ physics_model # NoneObj
    /\ Len(physics_model.power_history) = 2
    /\ energy_storage.state_of_charge # Z(0)
    /\ physics_model.c_elec # QAdd(physics_model.max_c_elec, <<1, 2>>)
    /\ physics_model.c_elec #
           PM_electrical_damping(physics_model, energy_storage)

-----------------------------------------------------------------------------
(* More properties of PhysicsModel.update, under PhysSpec.                  *)

\* C11: an update call with wind_speed = 0 on a model that has not failed,
\* whatever displacement and velocity it had, leaves displacement = 0 and
\* velocity = 0 exactly, time increased by exactly dt, and failed false.
C11_StillAirResets ==
    [][(/\ call'.op = "update"
        /\ ~physics_model.failed
        /\ call'.wind_speed = Z(0)) =>
          /\ physics_model'.displacement = Z(0)
          /\ physics_model'.velocity = Z(0)
          /\ physics_model'.state = <<Z(0), Z(0)>>
          /\ physics_model'.time = QAdd(physics_model.time, call'.dt)
          /\ ~physics_model'.failed]_vars

\* C11 witness: a model at the displacement limit, moving, was updated in
\* still air over a sixtieth of a second and is at rest.
C11_Witness ==
    /\ call.op = "update"
    /\ call.wind_speed = Z(0)
    /\ call.dt = <<1, 60>>
    /\ ~call.before.failed
    /\ call.before.displacement = <<1, 100>>
    /\ call.before.velocity = Z(2)
    /\ physics_model.displacement = Z(0)
    /\ physics_model.velocity = Z(0)
    /\ physics_model.time = QAdd(call.before.time, <<1, 60>>)
    /\ ~physics_model.failed

\* C15: an update call on a model that has not failed sets failed if and
\* only if the displacement its integration ended at is strictly beyond
\* 0.01 in absolute value; at 0.01 exactly, or below, failed stays false.
C15_FailsStrictlyBeyondLimit ==
    [][(/\ call'.op = "update"
        /\ ~physics_model.failed) =>
          /\ physics_model'.max_displacement = <<1, 100>>
          /\ physics_model'.failed <=>
                 QLt(<<1, 100>>, QAbs(physics_model'.state[1]))
          /\ QLe(QAbs(physics_model'.state[1]), <<1, 100>>) =>
                 ~physics_model'.failed]_vars

\* C15 witness: an update in wind ended its integration at -0.01 exactly and
\* the model has not failed.
C15_Witness ==
    /\ call.op = "update"
    /\ ~call.before.failed
    /\ QLt(Z(0), call.wind_speed)
    /\ physics_model.state[1] = <<-1, 100>>
    /\ physics_model.displacement = <<-1, 100>>
    /\ ~physics_model.failed

\* C16: an update call on a failed model sets wind_speed, displacement and
\* velocity to 0 and changes nothing else: time is not advanced, c_elec is
\* not recomputed from the store it is given, and failed, damping_ratio,
\* resonant_frequency, power_history and avg_power_window (with every other
\* field) keep their values.
C16_FailedUpdateFrame ==
    [][(/\ call'.op = "update"
        /\ physics_model.failed) =>
          /\ physics_model'.wind_speed = Z(0)
          /\ physics_model'.displacement = Z(0)
          /\ physics_model'.velocity = Z(0)
          /\ physics_model'.time = physics_model.time
          /\ physics_model'.c_elec = physics_model.c_elec
          /\ physics_model'.failed
          /\ physics_model'.damping_ratio = physics_model.damping_ratio
          /\ physics_model'.resonant_frequency =
                 physics_model.resonant_frequency
          /\ physics_model'.power_history = physics_model.power_history
          /\ physics_model'.avg_power_window = physics_model.avg_power_window
          /\ \A f \in DOMAIN physics_model \
                      {"wind_speed", "displacement", "velocity"} :
                 physics_model'[f] = physics_model[f]]_vars

\* C16 witness: a failed model, still displaced, was updated in wind over a
\* sixtieth of a second with a store whose state of charge its c_elec does
\* not reflect; it is at rest and its clock has not moved.
C16_Witness ==
    /\ call.op = "update"
    /\ call.before.failed
    /\ call.before.displacement # Z(0)
    /\ call.wind_speed = Z(30)
    /\ call.dt = <<1, 60>>
    /\ call.energy_storage # NoneObj
    /\ physics_model.c_elec #
           PM_electrical_damping(physics_model, call.energy_storage)
    /\ physics_model.displacement = Z(0)
    /\ physics_model.velocity = Z(0)
    /\ physics_model.wind_speed = Z(0)
    /\ physics_model.time = call.before.time
    /\ physics_model.failed

-----------------------------------------------------------------------------
(* The power metrics, under MetricsSpec.                                    *)

\* The last k entries of a sequence, all of it if it is shorter.
LastOf(q, k) == SubSeq(q, IF Len(q) > k THEN Len(q) - k + 1 ELSE 1, Len(q))

\* C12: after any sequence of update_power_metrics calls power_history
\* holds at most 200 entries and avg_power_window at most 300, each exactly
\* the most recent samples (power * 1000) in arrival order, the oldest
\* evicted first, and average_power is the arithmetic mean of what
\* avg_power_window holds.
C12_MetricsBoundedAndRecent ==
    LET samples == [i \in 1..Len(prev) |-> QMul(prev[i], Z(1000))]
        ph == physics_model.power_history
        aw == physics_model.avg_power_window
    IN  /\ Len(ph) <= 200
        /\ Len(aw) <= 300
        /\ ph = LastOf(samples, 200)
        /\ aw = LastOf(samples, 300)
        /\ Len(prev) > 0 =>
               QMul(physics_model.average_power, Z(Len(aw))) = QSum(aw)

\* C12 witness: 301 samples have arrived, the first of them differing from
\* the second; both deques are full and the first sample is in neither.
C12_Witness ==
    /\ Len(prev) = 301
    /\ prev[1] # prev[2]
    /\ Len(physics_model.power_history) = 200
    /\ Len(physics_model.avg_power_window) = 300
    /\ physics_model.avg_power_window[1] = QMul(prev[2], Z(1000))
    /\ physics_model.power_history[1] = QMul(prev[102], Z(1000))
    /\ physics_model.power_history[200] = QMul(prev[301], Z(1000))

-----------------------------------------------------------------------------
(* EnergyStorage.update(0, 0), under StoreSpec.                             *)

\* C13: update(0, 0) on a store (capacity > 0, discharge rate >= 0) whose
\* stored_energy is 0 or equals its capacity leaves stored_energy and
\* state_of_charge as they were; the state it leaves satisfies the same
\* condition, so any number of such calls does.
C13_UpdateZeroIdempotent ==
    [][(/\ call'.op = "EnergyStorage.update"
        /\ call'.dt = Z(0)
        /\ call'.joules_to_add = Z(0)
        /\ StoreValid(energy_storage)
        /\ \/ energy_storage.stored_energy = Z(0)
           \/ energy_storage.stored_energy = energy_storage.capacity) =>
          /\ raised' = "none"
          /\ energy_storage'.stored_energy = energy_storage.stored_energy
          /\ energy_storage'.state_of_charge =
                 energy_storage.state_of_charge
          /\ energy_storage' = energy_storage]_vars

\* C13 witness: update(0, 0) was called on a full store with a discharge
\* rate of 5 W, and the store is still full.
C13_Witness ==
    /\ call.op = "EnergyStorage.update"
    /\ call.dt = Z(0)
    /\ call.joules_to_add = Z(0)
    /\ StoreValid(energy_storage)
    /\ energy_storage.discharge_rate = Z(5)
    /\ call.stored_before = energy_storage.capacity
    /\ energy_storage.stored_energy = energy_storage.capacity
    /\ energy_storage.state_of_charge = Z(100)

-----------------------------------------------------------------------------
(* The driver's runs, under Spec.                                           *)

\* C19: in every run, every simulation step made before the first wind_up
\* or wind_down click of that run is given dt = 0, so the model's time, the
\* stored energy and the accumulated energy have not moved by then; this in
\* every run, one started after a failed run included.
C19_PausedUntilFirstWindClick ==
    (pc \in {"update"} \cup C5_AfterUpdate /\ call = NoCall) =>
        /\ dt = Z(0)
        /\ physics_model.time = Z(0)
        /\ energy_storage.stored_energy = Z(0)
        /\ total_energy_single_window = Z(0)

\* C14: whatever start, stop, wind_up and wind_down events and simulation
\* steps have taken place, the driver's wind_speed is within [0, 30], and so
\* is the one it passes to physics_model.update and the one the model keeps.
C14_WindSpeedWithinRange ==
    /\ QLe(Z(0), wind_speed) /\ QLe(wind_speed, Z(30))
    /\ physics_model # NoneObj =>
           /\ QLe(Z(0), physics_model.wind_speed)
           /\ QLe(physics_model.wind_speed, Z(30))

\* C14 witness: wind_up clicks have taken the wind speed to the clamp at 30,
\* and update is about to be called with it.
C14_Witness ==
    /\ pc = "update"
    /\ wind_speed = Z(30)
    /\ call = WindClick

AllPresent ==
    /\ physics_model # NoneObj
    /\ generator # NoneObj
    /\ energy_storage # NoneObj

AllAbsent ==
    /\ physics_model = NoneObj
    /\ generator = NoneObj
    /\ energy_storage = NoneObj

\* C17: the physics model, the generator and the energy store are always
\* all present or all absent; the 'start' event constructs the three at
\* once and the 'stop' event discards the three at once; whenever
\* simulation_running is true the three exist, and so they do at every call
\* of a simulation step.
C17_ObjectsAllOrNone ==
    /\ [](AllPresent \/ AllAbsent)
    /\ [](simulation_running => AllPresent)
    /\ [](pc \in {"update"} \cup C5_AfterUpdate => AllPresent)
    /\ [][(~simulation_running /\ simulation_running') =>
              /\ physics_model'.class = "PhysicsModel"
              /\ generator'.class = "VibrationGenerator"
              /\ energy_storage'.class = "EnergyStorage"]_vars
    /\ [][(pc = "events" /\ simulation_running /\ ~simulation_running') =>
              (AllPresent /\ AllAbsent')]_vars

\* C17 witness: a step is under way in a run, with the three objects there.
C17_Witness ==
    /\ pc = "store"
    /\ simulation_running
    /\ AllPresent
    /\ Len(physics_model.power_history) = 2

\* C18: once the driver has seen failed = true after an update it never
\* calls update on that model again: in the same iteration it clears
\* simulation_running and sets wind_speed to 0, a failed model is never what
\* update is called on, and simulation_running comes back only with a
\* 'start' event, which puts freshly constructed objects (failed = false,
\* stored_energy = 0) in the place of the three.
C18_NoUpdateAfterFailure ==
    /\ [](pc = "update" => ~physics_model.failed)
    /\ [][(pc = "check_failed" /\ physics_model.failed) =>
              (~simulation_running' /\ wind_speed' = Z(0))]_vars
    /\ []((AllPresent /\ physics_model.failed /\ pc # "check_failed") =>
              (~simulation_running /\ wind_speed = Z(0)))
    /\ [][(~simulation_running /\ simulation_running') =>
              /\ pc = "events"
              /\ physics_model' =
                     PhysicsModel_init(params.mass, params.damping,
                                       params.stiffness, params.area,
                                       params.max_elec_damping)
              /\ ~physics_model'.failed
              /\ generator'.power_output = Z(0)
              /\ energy_storage'.stored_energy = Z(0)
              /\ energy_storage'.state_of_charge = Z(0)]_vars

\* C18 witness: a run has failed (its timer is still started) and a 'start'
\* event has begun another one, whose fresh model update is about to be
\* called on, no wind click having been made in it.
C18_Witness ==
    /\ pc = "update"
    /\ simulation_running
    /\ timer_started
    /\ call = NoCall
    /\ ~physics_model.failed
    /\ physics_model.time = Z(0)
    /\ physics_model.power_history = <<>>
    /\ energy_storage.stored_energy = Z(0)

=============================================================================
